---- MODULE Spec2Model ----
(***************************************************************************)
(* q2cli/core/usage.py: the CLIUsage renderer and the examples() driver.   *)
(*                                                                         *)
(* A Python str is a sequence of one-character strings, so that joining,   *)
(* replacing, sorting and iterating a str act on it as Python does.  A     *)
(* Python value is a tagged record [t, v]; a dict is the sequence of its   *)
(* [k, v] items in insertion order.                                        *)
(***************************************************************************)
EXTENDS Integers, Sequences, FiniteSets, TLC

VARIABLES
    pc,             \* where examples() stands: "loop", "replay", "done", "raised"
    examples,       \* action.examples: the example names, in declaration order
    idx,            \* how many examples the loop of examples() has started
    recorder,       \* use._recorder
    init_data_refs, \* use._init_data_refs
    all_examples,   \* the list examples() builds
    out,            \* what examples() returns
    call,           \* the call made by the last step: [hook, args]
    ret,            \* what that call returned
    exc,            \* the exception that ended the run, "" if none
    calls,          \* hook calls made so far
    log             \* history: log[i] is what was appended during example i's replay

vars == <<pc, examples, idx, recorder, init_data_refs, all_examples, out,
          call, ret, exc, calls, log>>

(***************************************************************************)
(* Bounds                                                                  *)
(***************************************************************************)
MaxCalls == 3   \* hook calls the framework makes during one run
MaxLen == 3     \* length of a bound collection of parameter values

(***************************************************************************)
(* Python values                                                           *)
(***************************************************************************)
PyInt(n) == [t |-> "int", v |-> n]
PyStr(s) == [t |-> "str", v |-> s]
PyList(xs) == [t |-> "list", v |-> xs]
PyTuple(xs) == [t |-> "tuple", v |-> xs]
PyNone == [t |-> "none", v |-> <<>>]

Return(v) == [ok |-> TRUE, exc |-> "", val |-> v]
Raise(e) == [ok |-> FALSE, exc |-> e, val |-> <<>>]

\* The characters of the model in code-point order, as str comparison uses them.
Chars == <<"\n", " ", "#", "'", "-", ".", "0", "1", "2", "3", "4", "5", "6", "7",
           "8", "9", "\\", "_", "a", "b", "c", "d", "e", "f", "g", "h", "i", "j",
           "k", "l", "m", "n", "o", "p", "q", "r", "s", "t", "u", "v", "w", "x",
           "y", "z">>

CharOrd(c) == CHOOSE i \in DOMAIN Chars : Chars[i] = c

\* str < str: lexicographic by code point, a proper prefix first.
RECURSIVE StrLt(_, _)
StrLt(a, b) ==
    IF b = <<>> THEN FALSE
    ELSE IF a = <<>> THEN TRUE
    ELSE IF Head(a) = Head(b) THEN StrLt(Tail(a), Tail(b))
    ELSE CharOrd(Head(a)) < CharOrd(Head(b))

\* a < b for two ints or two strs.
PyLt(a, b) == IF a.t = "int" THEN a.v < b.v ELSE StrLt(a.v, b.v)

\* Where x goes in the sorted sequence s: after every element not greater than it.
RECURSIVE Insert(_, _)
Insert(s, x) ==
    IF s = <<>> THEN <<x>>
    ELSE IF PyLt(x, Head(s)) THEN <<x>> \o s
    ELSE <<Head(s)>> \o Insert(Tail(s), x)

RECURSIVE InsertionSort(_)
InsertionSort(s) ==
    IF s = <<>> THEN <<>> ELSE Insert(InsertionSort(SubSeq(s, 1, Len(s) - 1)), s[Len(s)])

\* Sorted without its sort: the values in the order supplied.
Unsorted(vals) == Return(vals)

\* sorted(vals): stable, ascending; comparing an int with a str is a TypeError.
Sorted(vals) ==
    IF \E i, j \in DOMAIN vals : vals[i].t # vals[j].t \/ vals[i].t \notin {"int", "str"}
    THEN IF Len(vals) < 2 THEN Return(vals) ELSE Raise("TypeError")
    ELSE Return(InsertionSort(vals))

\* The decimal digits of a natural number.
RECURSIVE Digits(_)
Digits(n) == IF n < 10 THEN <<Chars[7 + n]>> ELSE Digits(n \div 10) \o <<Chars[7 + (n % 10)]>>

\* f"{val}" for the values the hooks format: an int, a str, None.
Format(val) ==
    CASE val.t = "int" -> IF val.v < 0 THEN <<"-">> \o Digits(-val.v) ELSE Digits(val.v)
      [] val.t = "str" -> val.v
      [] val.t = "none" -> <<"N", "o", "n", "e">>

RECURSIVE Flatten(_)
Flatten(ss) == IF ss = <<>> THEN <<>> ELSE Head(ss) \o Flatten(Tail(ss))

\* sep.join(parts)
RECURSIVE Join(_, _)
Join(sep, parts) ==
    IF parts = <<>> THEN <<>>
    ELSE IF Len(parts) = 1 THEN parts[1]
    ELSE parts[1] \o sep \o Join(sep, Tail(parts))

\* s.replace(old, new) for a one-character old.
Replace(s, old, new) == [i \in DOMAIN s |-> IF s[i] = old THEN new ELSE s[i]]

\* dict operations on a sequence of [k, v] items
Keys(d) == {d[i].k : i \in DOMAIN d}
Get(d, k) == d[CHOOSE i \in DOMAIN d : d[i].k = k].v
Put(d, k, v) ==
    IF k \in Keys(d)
    THEN [i \in DOMAIN d |-> IF d[i].k = k THEN [k |-> k, v |-> v] ELSE d[i]]
    ELSE Append(d, [k |-> k, v |-> v])

(***************************************************************************)
(* Collaborators                                                           *)
(***************************************************************************)
is_iterable(val) == val.t \in {"str", "list", "tuple"}

is_metadata_type(qiime_type) == qiime_type \in {"Metadata", "MetadataColumn"}

is_visualization_type(qiime_type) == qiime_type = "Visualization"

to_cli_name(name) == Replace(name, "_", "-")

(***************************************************************************)
(* CLIUsage: templating                                                    *)
(***************************************************************************)
_destructure_signature(action_sig) ==
    LET IsMd(e) == is_metadata_type(e.v.qiime_type)
        IsPlain(e) == ~is_metadata_type(e.v.qiime_type)
    IN  [inputs |-> action_sig.inputs,
         params |-> SelectSeq(action_sig.parameters, IsPlain),
         mds |-> SelectSeq(action_sig.parameters, IsMd),
         outputs |-> action_sig.outputs]

\* The first loop of _destructure_opts: the bucket of each input_opts item.
RECURSIVE DestructureInputOpts(_, _, _)
DestructureInputOpts(signature, input_opts, acc) ==
    IF input_opts = <<>> THEN acc
    ELSE LET e == Head(input_opts)
             next ==
                 IF e.k \in Keys(signature.inputs)
                 THEN [acc EXCEPT !.inputs =
                          Put(@, e.k, [val |-> e.v, spec |-> Get(signature.inputs, e.k)])]
                 ELSE IF e.k \in Keys(signature.params)
                 THEN [acc EXCEPT !.params =
                          Put(@, e.k, [val |-> e.v, spec |-> Get(signature.params, e.k)])]
                 ELSE IF e.k \in Keys(signature.mds)
                 THEN [acc EXCEPT !.mds =
                          Put(@, e.k, [val |-> e.v, spec |-> Get(signature.mds, e.k)])]
                 ELSE acc
         IN  DestructureInputOpts(signature, Tail(input_opts), next)

\* The second loop: signature['outputs'][opt_name] is a KeyError for an unknown name.
RECURSIVE DestructureOutputOpts(_, _, _)
DestructureOutputOpts(signature, output_opts, acc) ==
    IF output_opts = <<>> THEN Return(acc)
    ELSE LET e == Head(output_opts)
         IN  IF e.k \notin Keys(signature.outputs) THEN Raise("KeyError")
             ELSE DestructureOutputOpts(signature, Tail(output_opts),
                      [acc EXCEPT !.outputs =
                          Put(@, e.k, [val |-> e.v, spec |-> Get(signature.outputs, e.k)])])

_destructure_opts(signature, input_opts, output_opts) ==
    DestructureOutputOpts(signature, output_opts,
        DestructureInputOpts(signature, input_opts,
            [inputs |-> <<>>, params |-> <<>>, mds |-> <<>>, outputs |-> <<>>]))

\* refs = ref if isinstance(ref, list) else [ref]
AsList(ref) == IF ref.t = "list" THEN ref.v ELSE <<ref>>

\* What iterating val yields: the items of a list or tuple, the characters of a str.
Elements(val) ==
    IF val.t = "str" THEN [i \in DOMAIN val.v |-> PyStr(<<val.v[i]>>)] ELSE val.v

InputFragment(opt_name, ref) ==
    <<"-", "-", "i", "-">> \o to_cli_name(opt_name) \o <<" ">> \o Format(ref)
        \o <<".", "q", "z", "a">>

_template_inputs(input_opts) ==
    Flatten([i \in DOMAIN input_opts |->
        LET refs == AsList(input_opts[i].v.val)
        IN  [j \in DOMAIN refs |-> InputFragment(input_opts[i].k, refs[j])]])

ParameterFragment(opt_name, val) ==
    <<"-", "-", "p", "-">> \o to_cli_name(opt_name) \o <<" ">> \o Format(val)

\* vals = val if is_iterable(val) else [val]
ParameterValues(val) == IF is_iterable(val) THEN Elements(val) ELSE <<val>>

_template_parameters(param_opts) ==
    LET sorted == [i \in DOMAIN param_opts |-> Sorted(ParameterValues(param_opts[i].v.val))]
    IN  IF \E i \in DOMAIN param_opts : ~sorted[i].ok THEN Raise("TypeError")
        ELSE Return(Flatten([i \in DOMAIN param_opts |->
                 [j \in DOMAIN sorted[i].val |->
                     ParameterFragment(param_opts[i].k, sorted[i].val[j])]]))

MetadataFileFragment(opt_name, ref) ==
    <<"-", "-", "m", "-">> \o to_cli_name(opt_name) \o <<"-", "f", "i", "l", "e", " ">>
        \o Format(ref) \o <<".", "t", "s", "v">>

MetadataColumnFragment(opt_name, col) ==
    <<"-", "-", "m", "-">> \o to_cli_name(opt_name)
        \o <<"-", "c", "o", "l", "u", "m", "n", " ", "'">> \o Format(col) \o <<"'">>

\* MetadataFragments without its test of col: a column fragment for every pair.
MetadataFragmentsAnyColumn(opt_name, ref) ==
    IF ref.t = "tuple"
    THEN <<MetadataFileFragment(opt_name, ref.v[1]), MetadataColumnFragment(opt_name, ref.v[2])>>
    ELSE <<MetadataFileFragment(opt_name, ref)>>

\* The fragments of one element of a metadata binding.
MetadataFragments(opt_name, ref) ==
    LET file == IF ref.t = "tuple" THEN ref.v[1] ELSE ref
        col == IF ref.t = "tuple" THEN ref.v[2] ELSE PyNone
    IN  <<MetadataFileFragment(opt_name, file)>>
            \o (IF col # PyNone THEN <<MetadataColumnFragment(opt_name, col)>> ELSE <<>>)

\* ref, col = ref unpacks a tuple of two items only.
_template_metadata(md_opts) ==
    IF \E i \in DOMAIN md_opts : \E j \in DOMAIN AsList(md_opts[i].v.val) :
           LET ref == AsList(md_opts[i].v.val)[j] IN ref.t = "tuple" /\ Len(ref.v) # 2
    THEN Raise("ValueError")
    ELSE Return(Flatten([i \in DOMAIN md_opts |->
             LET refs == AsList(md_opts[i].v.val)
             IN  Flatten([j \in DOMAIN refs |-> MetadataFragments(md_opts[i].k, refs[j])])]))

OutputFragment(opt_name, ref, spec) ==
    <<"-", "-", "o", "-">> \o to_cli_name(opt_name) \o <<" ">> \o Format(ref)
        \o (IF is_visualization_type(spec.qiime_type)
            THEN <<".", "q", "z", "v">> ELSE <<".", "q", "z", "a">>)

_template_outputs(output_opts) ==
    [i \in DOMAIN output_opts |->
        OutputFragment(output_opts[i].k, output_opts[i].v.val, output_opts[i].v.spec)]

\* textwrap.TextWrapper(initial_indent=" " * 4).fill(t), for a fragment shorter
\* than the wrapper's width, as every fragment of the model is.
Fill(t) == IF t = <<>> THEN <<>> ELSE <<" ", " ", " ", " ">> \o t

_format_templates(command, templates) ==
    Join(<<" ", "\\", "\n">>, <<command>> \o [i \in DOMAIN templates |-> Fill(templates[i])])

BaseCommand(action_f) ==
    to_cli_name(<<"q", "i", "i", "m", "e", " ">> \o action_f.plugin_id \o <<" ">> \o action_f.id)

\* Templates with the parameters unpacked first.
TemplatesParamsFirst(inputs, params, mds, outputs) == params \o inputs \o mds \o outputs

\* The templates list of _template_action, in its fixed group order.
Templates(inputs, params, mds, outputs) == inputs \o params \o mds \o outputs

_template_action(action, input_opts, output_opts) ==
    IF ~action.valid THEN Raise("ValueError")
    ELSE LET signature == _destructure_signature(action.sig)
             opts == _destructure_opts(signature, input_opts, output_opts)
         IN  IF ~opts.ok THEN opts
             ELSE LET params == _template_parameters(opts.val.params)
                      mds == _template_metadata(opts.val.mds)
                  IN  IF ~params.ok THEN params
                      ELSE IF ~mds.ok THEN mds
                      ELSE Return(_format_templates(BaseCommand(action),
                               Templates(_template_inputs(opts.val.inputs), params.val,
                                         mds.val, _template_outputs(opts.val.outputs))))

(***************************************************************************)
(* CLIUsage: state and hooks                                               *)
(***************************************************************************)
PyDict(items) == [t |-> "dict", v |-> items]
Item(k, v) == [k |-> k, v |-> v]

\* NewRecorder as a list shared by the instances: what the last one recorded.
StaleRecorder == recorder

\* self._recorder and self._init_data_refs as __init__ leaves them.
NewRecorder == <<>>
NewInitDataRefs == <<>>

\* A hook may be called while an example is replayed.
Replaying == pc = "replay" /\ calls < MaxCalls

RegisterRef(ref, factory) == Put(init_data_refs, ref, factory)

_init_data_(ref, factory) ==
    /\ Replaying
    /\ init_data_refs' = RegisterRef(ref, factory)
    /\ ret' = ref
    /\ call' = [hook |-> "init_data", args |-> <<ref, factory>>]
    /\ calls' = calls + 1
    /\ UNCHANGED <<pc, examples, idx, recorder, all_examples, out, exc, log>>

_init_metadata_(ref, factory) ==
    /\ Replaying
    /\ init_data_refs' = RegisterRef(ref, factory)
    /\ ret' = ref
    /\ call' = [hook |-> "init_metadata", args |-> <<ref, factory>>]
    /\ calls' = calls + 1
    /\ UNCHANGED <<pc, examples, idx, recorder, all_examples, out, exc, log>>

\* SortedRefs without its sort.
UnsortedRefs(records) == PyList([i \in DOMAIN records |-> records[i].ref])

\* sorted([r.ref for r in records])
SortedRefs(records) == PyList(Sorted([i \in DOMAIN records |-> records[i].ref]).val)

_init_data_collection_(ref, collection_type, records) ==
    /\ Replaying
    /\ ret' = SortedRefs(records)
    /\ call' = [hook |-> "init_data_collection", args |-> <<ref, collection_type, records>>]
    /\ calls' = calls + 1
    /\ UNCHANGED <<pc, examples, idx, recorder, init_data_refs, all_examples, out, exc, log>>

_merge_metadata_(ref, records) ==
    /\ Replaying
    /\ ret' = SortedRefs(records)
    /\ call' = [hook |-> "merge_metadata", args |-> <<ref, records>>]
    /\ calls' = calls + 1
    /\ UNCHANGED <<pc, examples, idx, recorder, init_data_refs, all_examples, out, exc, log>>

MetadataColumn(column_name, record) == PyTuple(<<record.ref, column_name>>)

_get_metadata_column_(column_name, record) ==
    /\ Replaying
    /\ ret' = MetadataColumn(column_name, record)
    /\ call' = [hook |-> "get_metadata_column", args |-> <<column_name, record>>]
    /\ calls' = calls + 1
    /\ UNCHANGED <<pc, examples, idx, recorder, init_data_refs, all_examples, out, exc, log>>

\* CommentEntry without the '# ' it puts first.
BareCommentEntry(text) == text

CommentEntry(text) == <<"#", " ">> \o text

_comment_(text) ==
    /\ Replaying
    /\ recorder' = Append(recorder, CommentEntry(text))
    /\ log' = [log EXCEPT ![idx] = Append(@, CommentEntry(text))]
    /\ ret' = PyNone
    /\ call' = [hook |-> "comment", args |-> <<text>>]
    /\ calls' = calls + 1
    /\ UNCHANGED <<pc, examples, idx, init_data_refs, all_examples, out, exc>>

\* RecorderAfterAction with the append made whatever _template_action did.
RecorderAppendedAlways(t) == Append(recorder, t.val)

\* The recorder after _action_ got t from _template_action: an exception of
\* _template_action leaves _action_ before the append.
RecorderAfterAction(t) == IF t.ok THEN Append(recorder, t.val) ELSE recorder

ActionReturn(output_opts) == PyDict(output_opts)

_action_(action, input_opts, output_opts) ==
    /\ Replaying
    /\ LET t == _template_action(action, input_opts, output_opts)
       IN  /\ recorder' = RecorderAfterAction(t)
           /\ log' = [log EXCEPT ![idx] = @ \o SubSeq(recorder', Len(recorder) + 1, Len(recorder'))]
           /\ ret' = IF t.ok THEN ActionReturn(output_opts) ELSE PyNone
           /\ pc' = IF t.ok THEN pc ELSE "raised"
           /\ exc' = t.exc
    /\ call' = [hook |-> "action", args |-> <<action, input_opts, output_opts>>]
    /\ calls' = calls + 1
    /\ UNCHANGED <<examples, idx, init_data_refs, all_examples, out>>

_assert_has_line_matching_(ref, label, path, expression) ==
    /\ Replaying
    /\ ret' = PyNone
    /\ call' = [hook |-> "assert_has_line_matching", args |-> <<ref, label, path, expression>>]
    /\ calls' = calls + 1
    /\ UNCHANGED <<pc, examples, idx, recorder, init_data_refs, all_examples, out, exc, log>>

\* render with a blank line between the entries.
RenderBlankLine == Join(<<"\n", "\n">>, recorder)

render == Join(<<"\n">>, recorder)

\* f(): the value a registered factory makes.
Materialize(factory) == [t |-> "data", v |-> factory.v]

get_example_data ==
    /\ Replaying
    /\ ret' = PyDict([i \in DOMAIN init_data_refs |->
                  Item(init_data_refs[i].k, Materialize(init_data_refs[i].v))])
    /\ call' = [hook |-> "get_example_data", args |-> <<>>]
    /\ calls' = calls + 1
    /\ UNCHANGED <<pc, examples, idx, recorder, init_data_refs, all_examples, out, exc, log>>

(***************************************************************************)
(* examples(action)                                                        *)
(***************************************************************************)
Header(example) == Replace(<<"#", " ">> \o example, "_", " ")

\* use = CLIUsage(), at the top of the loop body
NewExample ==
    /\ pc = "loop" /\ idx < Len(examples)
    /\ idx' = idx + 1
    /\ recorder' = NewRecorder
    /\ init_data_refs' = NewInitDataRefs
    /\ pc' = "replay"
    /\ call' = [hook |-> "__init__", args |-> <<>>]
    /\ ret' = PyNone
    /\ UNCHANGED <<examples, all_examples, out, exc, calls, log>>

\* The example callable returned: render, header, the two appends.
EndExample ==
    /\ pc = "replay"
    /\ all_examples' = all_examples \o <<Header(examples[idx]), render \o <<"\n">>>>
    /\ pc' = "loop"
    /\ call' = [hook |-> "render", args |-> <<>>]
    /\ ret' = PyStr(render)
    /\ UNCHANGED <<examples, idx, recorder, init_data_refs, out, exc, calls, log>>

ReturnExamples ==
    /\ pc = "loop" /\ idx = Len(examples)
    /\ out' = Join(<<"\n", "\n">>, all_examples)
    /\ pc' = "done"
    /\ call' = [hook |-> "return", args |-> <<>>]
    /\ ret' = PyNone
    /\ UNCHANGED <<examples, idx, recorder, init_data_refs, all_examples, exc, calls, log>>

(***************************************************************************)
(* The framework's side: the action, the values and the bindings it passes *)
(***************************************************************************)
SeqsUpTo(S, n) == UNION {[1..k -> S] : k \in 0..n}

\* The dicts over a set of items: every order of every subset, no key twice.
Dicts(items) ==
    {d \in SeqsUpTo(items, Cardinality(items)) :
        \A i, j \in DOMAIN d : i # j => d[i].k # d[j].k}

in_name == <<"i", "_", "n">>
param_name == <<"p", "_", "n">>
md_name == <<"m", "_", "d">>
artifact_name == <<"o", "_", "a">>
viz_name == <<"o", "_", "v">>
unknown_name == <<"z", "_", "z">>

a_ref == PyStr(<<"a", "_", "f">>)
b_ref == PyStr(<<"b", "_", "f">>)
short_ref == PyStr(<<"b">>)
column == PyStr(<<"c", "_", "l">>)

Refs == {a_ref, b_ref}
RecordsOf(refs) == {[ref |-> r] : r \in refs}
Records == RecordsOf(Refs \cup {short_ref})
Factories == {[t |-> "factory", v |-> "f"], [t |-> "factory", v |-> "g"]}

action_sig ==
    [inputs |-> <<Item(in_name, [qiime_type |-> "FeatureTable"])>>,
     parameters |-> <<Item(md_name, [qiime_type |-> "Metadata"]),
                      Item(param_name, [qiime_type |-> "Int"])>>,
     outputs |-> <<Item(viz_name, [qiime_type |-> "Visualization"]),
                   Item(artifact_name, [qiime_type |-> "FeatureTable"])>>]

\* An action descriptor; get_action() of one that is not valid raises.
Action(valid) ==
    [valid |-> valid, plugin_id |-> <<"p", "_", "g">>, id |-> <<"a", "_", "c">>,
     sig |-> action_sig]

Binding(action, input_opts, output_opts) ==
    [action |-> action, input_opts |-> input_opts, output_opts |-> output_opts]

\* What the framework binds the value the previous hook returned to: a collection
\* to the input slot, merged metadata or a metadata column to the metadata slot.
Threaded(c, r) ==
    IF c.hook = "init_data_collection"
    THEN {Binding(Action(TRUE), <<Item(in_name, r)>>, <<Item(artifact_name, a_ref)>>)}
    ELSE IF c.hook \in {"merge_metadata", "get_metadata_column"}
    THEN {Binding(Action(TRUE), <<Item(md_name, r)>>, <<Item(viz_name, a_ref)>>)}
    ELSE {}

\* The action calls of a replayed example.
ExampleBindings ==
    {Binding(Action(TRUE), <<Item(param_name, PyInt(2)), Item(in_name, a_ref)>>,
             <<Item(artifact_name, b_ref)>>),
     Binding(Action(TRUE), <<Item(unknown_name, a_ref), Item(md_name, b_ref)>>,
             <<Item(viz_name, a_ref)>>),
     Binding(Action(TRUE), <<Item(in_name, a_ref)>>, <<Item(unknown_name, b_ref)>>),
     Binding(Action(TRUE), <<Item(param_name, PyList(<<PyInt(1), PyStr(<<"b">>)>>))>>,
             <<Item(artifact_name, b_ref)>>),
     Binding(Action(FALSE), <<Item(in_name, a_ref)>>, <<Item(artifact_name, b_ref)>>)}

ParamItems == {PyInt(n) : n \in 1..3}

ParamVals ==
    ParamItems
        \cup {PyList(s) : s \in SeqsUpTo(ParamItems, MaxLen)}
        \cup {PyStr(<<"c", "a", "b">>), PyStr(<<"b">>), PyStr(<<>>),
              PyList(<<PyStr(<<"b", "a">>), PyStr(<<"b">>), PyStr(<<"a", "_", "c">>)>>),
              PyList(<<PyInt(1), PyStr(<<"b">>)>>)}

MdItems ==
    Refs \cup {PyTuple(<<r, c>>) : r \in Refs, c \in {column, PyNone}}

MdVals == MdItems \cup {PyList(s) : s \in SeqsUpTo(MdItems, 2)}

InputVals == Refs \cup {short_ref} \cup {PyList(s) : s \in SeqsUpTo(Refs \cup {short_ref}, 2)}

OutputBindings ==
    Dicts({Item(artifact_name, a_ref), Item(viz_name, b_ref)})
        \cup {<<Item(unknown_name, a_ref)>>,
              <<Item(artifact_name, a_ref), Item(unknown_name, b_ref)>>}

\* The action calls templated on their own: every order of the four kinds of
\* name, and each kind of slot with every value it takes.
TemplateBindings ==
    {Binding(Action(TRUE), i, o) :
        i \in Dicts({Item(in_name, a_ref), Item(param_name, PyInt(2)),
                     Item(md_name, PyTuple(<<b_ref, column>>)), Item(unknown_name, a_ref)}),
        o \in OutputBindings}
    \cup {Binding(Action(TRUE), <<Item(param_name, v)>>, <<Item(artifact_name, a_ref)>>) :
              v \in ParamVals}
    \cup {Binding(Action(TRUE), <<Item(md_name, v)>>, <<Item(viz_name, a_ref)>>) :
              v \in MdVals}
    \cup {Binding(Action(TRUE), <<Item(in_name, v)>>, <<Item(artifact_name, a_ref)>>) :
              v \in InputVals}

CommentTexts == {<<"h", "i">>, <<"a", "_", "b">>}

ExampleNames == {<<"e", "x", "_", "1">>, <<"e", "_", "x", "_", "2">>}

ExampleLists == {e \in SeqsUpTo(ExampleNames, 2) : \A i, j \in DOMAIN e : i # j => e[i] # e[j]}

(***************************************************************************)
(* Spec: examples(action), the framework replaying each example            *)
(***************************************************************************)
Init ==
    /\ pc = "loop"
    /\ examples \in ExampleLists
    /\ idx = 0
    /\ recorder = <<>>
    /\ init_data_refs = <<>>
    /\ all_examples = <<>>
    /\ out = <<>>
    /\ call = [hook |-> "examples", args |-> <<>>]
    /\ ret = PyNone
    /\ exc = ""
    /\ calls = 0
    /\ log = [i \in DOMAIN examples |-> <<>>]

InitDataHook == \E ref \in Refs, f \in Factories : _init_data_(ref, f)
InitMetadataHook == \E ref \in Refs, f \in Factories : _init_metadata_(ref, f)
InitDataCollectionHook ==
    \E recs \in SeqsUpTo(RecordsOf(Refs), 2) : _init_data_collection_(a_ref, "List", recs)
MergeMetadataHook == \E recs \in SeqsUpTo(RecordsOf(Refs), 2) : _merge_metadata_(a_ref, recs)
GetMetadataColumnHook ==
    \E rec \in RecordsOf(Refs) : _get_metadata_column_(column, rec)
CommentHook == \E text \in CommentTexts : _comment_(text)
ActionHook ==
    \E b \in ExampleBindings \cup Threaded(call, ret) : _action_(b.action, b.input_opts, b.output_opts)
AssertHook == _assert_has_line_matching_(a_ref, "label", "path", "expression")

Next ==
    \/ NewExample
    \/ InitDataHook
    \/ InitMetadataHook
    \/ InitDataCollectionHook
    \/ MergeMetadataHook
    \/ GetMetadataColumnHook
    \/ CommentHook
    \/ ActionHook
    \/ AssertHook
    \/ get_example_data
    \/ EndExample
    \/ ReturnExamples

Spec == Init /\ [][Next]_vars

(***************************************************************************)
(* TemplateSpec: one action call templated by a fresh renderer, after at   *)
(* most one hook whose return value the framework binds                    *)
(***************************************************************************)
TemplateInit ==
    /\ pc = "replay"
    /\ examples = <<<<"e", "x", "_", "1">>>>
    /\ idx = 1
    /\ recorder = NewRecorder
    /\ init_data_refs = NewInitDataRefs
    /\ all_examples = <<>>
    /\ out = <<>>
    /\ call = [hook |-> "__init__", args |-> <<>>]
    /\ ret = PyNone
    /\ exc = ""
    /\ calls = 0
    /\ log = <<<<>>>>

TemplateCollection ==
    /\ calls = 0
    /\ \E recs \in SeqsUpTo(Records, MaxLen) : _init_data_collection_(a_ref, "List", recs)

TemplateMerge ==
    /\ calls = 0
    /\ \E recs \in SeqsUpTo(Records, MaxLen) : _merge_metadata_(a_ref, recs)

TemplateColumn ==
    /\ calls = 0
    /\ \E rec \in Records, col \in {column, PyNone} : _get_metadata_column_(col, rec)

TemplateAction ==
    /\ recorder = <<>>
    /\ \E b \in (IF calls = 0 THEN TemplateBindings ELSE Threaded(call, ret)) :
           _action_(b.action, b.input_opts, b.output_opts)

TemplateNext == TemplateCollection \/ TemplateMerge \/ TemplateColumn \/ TemplateAction

TemplateSpec == TemplateInit /\ [][TemplateNext]_vars

(***************************************************************************)
(* Reading a rendered text back                                            *)
(***************************************************************************)
IsPrefix(p, s) == Len(p) <= Len(s) /\ \A k \in DOMAIN p : s[k] = p[k]

\* Where sep occurs in s.
Occurs(s, sep, i) == \A k \in DOMAIN sep : s[i + k - 1] = sep[k]

\* s.split(sep) from position start on.
RECURSIVE SplitFrom(_, _, _)
SplitFrom(s, sep, start) ==
    LET hits == {i \in start..(Len(s) - Len(sep) + 1) : Occurs(s, sep, i)}
    IN  IF hits = {} THEN <<SubSeq(s, start, Len(s))>>
        ELSE LET i == CHOOSE h \in hits : \A g \in hits : h <= g
             IN  <<SubSeq(s, start, i - 1)>> \o SplitFrom(s, sep, i + Len(sep))

Split(s, sep) == SplitFrom(s, sep, 1)

Lines(s) == Split(s, <<"\n">>)

RECURSIVE ParseNat(_)
ParseNat(ds) ==
    IF ds = <<>> THEN 0
    ELSE 10 * ParseNat(SubSeq(ds, 1, Len(ds) - 1)) + (CharOrd(ds[Len(ds)]) - CharOrd("0"))

Continuation == <<" ", "\\", "\n">>
Indent == <<" ", " ", " ", " ">>

\* The pieces the continuations of a block join: the command, then the fragments.
Pieces(block) == Split(block, Continuation)
Fragments(block) == Tail(Pieces(block))

\* The fragments among frags that start with the indent and p, each without them.
WithPrefix(frags, p) ==
    LET Has(f) == IsPrefix(Indent \o p, f)
        hit == SelectSeq(frags, Has)
    IN  [i \in DOMAIN hit |-> SubSeq(hit[i], Len(Indent \o p) + 1, Len(hit[i]))]

\* The group of a fragment: 1 inputs, 2 parameters, 3 metadata, 4 outputs, 0 none.
Group(f) ==
    IF IsPrefix(Indent \o <<"-", "-", "i", "-">>, f) THEN 1
    ELSE IF IsPrefix(Indent \o <<"-", "-", "p", "-">>, f) THEN 2
    ELSE IF IsPrefix(Indent \o <<"-", "-", "m", "-">>, f) THEN 3
    ELSE IF IsPrefix(Indent \o <<"-", "-", "o", "-">>, f) THEN 4
    ELSE 0

\* The last step was an action call that returned; the block it appended.
Templated == call.hook = "action" /\ exc = ""
Block == recorder[Len(recorder)]
InputOpts == call.args[2]
OutputOpts == call.args[3]

Declared == {in_name, param_name, md_name, artifact_name, viz_name}

\* The last step was an action call binding one slot alone.
BoundAlone(name) == call.hook = "action" /\ Len(InputOpts) = 1 /\ InputOpts[1].k = name

Count(seq, x) == Cardinality({i \in DOMAIN seq : seq[i] = x})

Ascending(strs) == \A i, j \in DOMAIN strs : i < j => ~StrLt(strs[j], strs[i])

\* The references of the '--i-i-n <ref>.qza' fragments of a block, in order.
InputRefs(block) ==
    LET f == WithPrefix(Fragments(block), <<"-", "-", "i", "-", "i", "-", "n", " ">>)
    IN  [i \in DOMAIN f |-> SubSeq(f[i], 1, Len(f[i]) - 4)]

\* The values of the '--p-p-n <value>' fragments of a block, in order.
ParamValues(block) ==
    WithPrefix(Fragments(block), <<"-", "-", "p", "-", "p", "-", "n", " ">>)

(***************************************************************************)
(* Claims                                                                  *)
(***************************************************************************)

\* C1: an action call whose binding maps (input_opts or output_opts) hold a name the
\* signature does not declare completes normally, and its block has no fragment for
\* that name.
C1_UnknownBindingDropped ==
    (/\ call.hook = "action"
     /\ \/ \E i \in DOMAIN InputOpts : InputOpts[i].k \notin Declared
        \/ \E i \in DOMAIN OutputOpts : OutputOpts[i].k \notin Declared)
    => /\ exc = ""
       /\ pc = "replay"
       /\ LET frags == Fragments(Block)
          IN  \A k \in {"i", "p", "m", "o"} :
                  WithPrefix(frags, <<"-", "-", k, "-", "z", "-", "z">>) = <<>>

\* C2: the transcript is append-only: comment(text) appends the one entry '# <text>',
\* a successful action call appends one entry, a command block, and returns
\* output_opts, the entries before it stay as they were, and the other hooks, render
\* and get_example_data leave the transcript as it was.
C2_Step ==
    /\ call'.hook = "comment" =>
           recorder' = Append(recorder, <<"#", " ">> \o call'.args[1])
    /\ (call'.hook = "action" /\ exc' = "") =>
           /\ Len(recorder') = Len(recorder) + 1
           /\ SubSeq(recorder', 1, Len(recorder)) = recorder
           /\ IsPrefix(<<"q", "i", "i", "m", "e", " ">>, recorder'[Len(recorder')])
           /\ ret'.t = "dict" /\ ret'.v = call'.args[3]
    /\ call'.hook \in {"init_data", "init_metadata", "init_data_collection",
                       "merge_metadata", "get_metadata_column",
                       "assert_has_line_matching", "render", "get_example_data"} =>
           recorder' = recorder

\* C2: every step keeps the transcript append-only, as C2_Step states it.
C2_TranscriptAppendOnly == [][C2_Step]_vars

C2_Witness ==
    /\ Templated
    /\ Len(recorder) = 3
    /\ IsPrefix(<<"#", " ">>, recorder[2])
    /\ IsPrefix(<<"q", "i", "i", "m", "e">>, recorder[1])

\* C3: an action call that fails leaves the transcript and the registry as they were
\* before the call, and the failure ends the run: no step follows it.
C3_Step ==
    /\ pc # "raised"
    /\ (call'.hook = "action" /\ exc' # "") =>
           /\ recorder' = recorder
           /\ init_data_refs' = init_data_refs
           /\ pc' = "raised"

\* C3: every step leaves a failed action call without effect, as C3_Step states it.
C3_FailedActionChangesNothing == [][C3_Step]_vars

C3_Witness ==
    /\ call.hook = "action"
    /\ exc = "TypeError"
    /\ pc = "raised"
    /\ Len(recorder) = 1
    /\ Len(init_data_refs) = 1

\* C4 as stated: an input slot bound to a list of references in any order renders its
\* '--i-<name> <ref>.qza' fragments in ascending order of the references.
C4_SortedWhateverTheBinding ==
    (Templated /\ BoundAlone(in_name) /\ InputOpts[1].v.t = "list")
    => Ascending(InputRefs(Block))

\* C4 amended: the fragments of an input slot follow the order of the references in
\* the binding; init_data_collection returns the references of its records in
\* ascending order whatever the order of the records, so a slot bound to what it
\* returned renders ascending.
C4_Step ==
    (call'.hook = "action" /\ exc' = "" /\ Len(call'.args[2]) = 1
        /\ call'.args[2][1].k = in_name /\ call'.args[2][1].v.t = "list") =>
        LET bound == call'.args[2][1].v.v
            refs == InputRefs(recorder'[Len(recorder')])
        IN  /\ refs = [i \in DOMAIN bound |-> bound[i].v]
            /\ (call.hook = "init_data_collection" /\ call'.args[2][1].v = ret) =>
                   /\ Len(refs) = Len(call.args[3])
                   /\ \A r \in Records : Count(refs, r.ref.v) = Count(call.args[3], r)
                   /\ Ascending(refs)

\* C4 amended: every action call renders its input slot as C4_Step states it.
C4_BindingOrderAndSortedCollection == [][C4_Step]_vars

C4_Witness ==
    /\ Templated
    /\ calls = 2
    /\ BoundAlone(in_name)
    /\ InputRefs(Block) = <<a_ref.v, short_ref.v, b_ref.v>>

\* C5: a plain-parameter slot bound to a collection of n values renders n fragments
\* '--p-<name> <value>', one per supplied value, duplicates kept, in ascending order
\* of the values, whatever the order they were supplied in.
C5_ParametersSorted ==
    (Templated /\ BoundAlone(param_name) /\ InputOpts[1].v.t = "list")
    => LET vals == InputOpts[1].v.v
           rendered == ParamValues(Block)
       IN  /\ Len(rendered) = Len(vals)
           /\ \A i \in DOMAIN vals : Count(rendered, Format(vals[i])) = Count(vals, vals[i])
           /\ IF \A k \in DOMAIN vals : vals[k].t = "int"
              THEN \A i, j \in DOMAIN rendered :
                       i < j => ParseNat(rendered[i]) <= ParseNat(rendered[j])
              ELSE Ascending(rendered)

C5_Witness ==
    /\ Templated
    /\ BoundAlone(param_name)
    /\ InputOpts[1].v = PyList(<<PyInt(3), PyInt(1), PyInt(3)>>)
    /\ ParamValues(Block) = <<<<"1">>, <<"3">>, <<"3">>>>

\* C6: a metadata slot renders, for each element of its binding in order: for a plain
\* reference the one fragment '--m-<name>-file <ref>.tsv'; for a (reference, column)
\* pair that fragment and then '--m-<name>-column '<column>''; for a pair whose column
\* is None the file fragment alone.
C6_Expected(e) ==
    LET file(r) == <<"f", "i", "l", "e", " ">> \o r.v \o <<".", "t", "s", "v">>
    IN  IF e.t # "tuple" THEN <<file(e)>>
        ELSE IF e.v[2].t = "none" THEN <<file(e.v[1])>>
        ELSE <<file(e.v[1]), <<"c", "o", "l", "u", "m", "n", " ", "'">> \o e.v[2].v \o <<"'">>>>

\* C6: the metadata fragments of a block are those C6_Expected gives, in order.
C6_MetadataFragments ==
    (Templated /\ BoundAlone(md_name))
    => LET v == InputOpts[1].v
           elems == IF v.t = "list" THEN v.v ELSE <<v>>
       IN  WithPrefix(Fragments(Block), <<"-", "-", "m", "-", "m", "-", "d", "-">>)
               = Flatten([i \in DOMAIN elems |-> C6_Expected(elems[i])])

C6_Witness ==
    /\ Templated
    /\ BoundAlone(md_name)
    /\ InputOpts[1].v = PyList(<<PyTuple(<<b_ref, column>>), PyTuple(<<a_ref, PyNone>>)>>)
    /\ Len(Fragments(Block)) = 4

\* C7 as stated: in the text render() returns for a transcript of two entries or
\* more, one empty line separates every two consecutive entries.
C7_BlankLineBetweenEntries ==
    (call.hook = "render" /\ Len(recorder) >= 2)
    => Lines(ret.v) = Join(<<<<>>>>, [i \in DOMAIN recorder |-> Lines(recorder[i])])

\* C7 amended: the text render() returns is the entries in recording order, one
\* newline and no empty line between two consecutive entries.
C7_NewlineBetweenEntries ==
    (call.hook = "render" /\ Len(recorder) >= 2)
    => Lines(ret.v) = Flatten([i \in DOMAIN recorder |-> Lines(recorder[i])])

C7_Witness ==
    /\ call.hook = "render"
    /\ Len(recorder) = 3
    /\ \E i \in DOMAIN recorder : Len(Lines(recorder[i])) > 1

\* C8: what examples() returns is, in declaration order, for each example the header
\* '# <name, underscores as spaces>' and then the transcript of what its own replay
\* recorded, and nothing another example's replay recorded.
C8_Transcript(i) == Join(<<"\n">>, log[i]) \o <<"\n">>

\* C8: the text examples() returns holds each example's header and own transcript.
C8_ExamplesIsolated ==
    pc = "done"
    => out = Join(<<"\n", "\n">>,
                Flatten([i \in DOMAIN examples |->
                    <<<<"#", " ">> \o Replace(examples[i], "_", " "), C8_Transcript(i)>>]))

C8_Witness ==
    /\ pc = "done"
    /\ Len(examples) = 2
    /\ Len(log[1]) = 2
    /\ Len(log[2]) = 1
    /\ log[2][1] # log[1][1]

\* C9: a block starts with 'qiime <plugin-id> <action-id>', and every fragment after
\* it, joined by ' \' and a newline, is a flag of a bound declared name, in the group
\* order inputs, parameters, metadata, outputs whatever the order of the names in the
\* binding maps.
C9_GroupOrder ==
    Templated
    => LET frags == Fragments(Block)
           groups == [i \in DOMAIN frags |-> Group(frags[i])]
       IN  /\ IsPrefix(<<"q", "i", "i", "m", "e", " ", "p", "-", "g", " ", "a", "-", "c">>
                           \o (IF frags = <<>> THEN <<>> ELSE Continuation), Block)
           /\ \A i \in DOMAIN groups : groups[i] # 0
           /\ \A i, j \in DOMAIN groups : i < j => groups[i] <= groups[j]
           /\ \A i \in DOMAIN InputOpts :
                  /\ (InputOpts[i].k = in_name /\ InputOpts[i].v.t = "str") =>
                         \E j \in DOMAIN groups : groups[j] = 1
                  /\ (InputOpts[i].k = param_name /\ InputOpts[i].v.t = "int") =>
                         \E j \in DOMAIN groups : groups[j] = 2
                  /\ (InputOpts[i].k = md_name /\ InputOpts[i].v.t # "list") =>
                         \E j \in DOMAIN groups : groups[j] = 3
           /\ Count(groups, 4) = Len(OutputOpts)

C9_Witness ==
    /\ Templated
    /\ Len(InputOpts) = 4
    /\ InputOpts[1].k = md_name
    /\ InputOpts[2].k = param_name
    /\ InputOpts[4].k = in_name
    /\ Len(OutputOpts) = 2
    /\ Len(Fragments(Block)) = 6

\* C10: a plain-parameter slot bound to one scalar value, an int or a str, renders the
\* one fragment '--p-<name> <value>' that carries the whole value.
C10_ScalarIsOneFragment ==
    (BoundAlone(param_name) /\ InputOpts[1].v.t \in {"int", "str"})
    => /\ exc = ""
       /\ pc = "replay"
       /\ ParamValues(Block) = <<Format(InputOpts[1].v)>>

====
